---- MODULE Spec2Model ----
(***************************************************************************)
(* The feed cursor of gitkot: the useGitHub hook (criteria rotation, seen  *)
(* page tracking in localStorage, pagination continuation) together with   *)
(* the outcomes of fetchRepositoriesPage.                                  *)
(***************************************************************************)
EXTENDS Integers, Sequences, FiniteSets, TLC

\* ------------------------------------------------------------------ bounds

\* Number of criteria in SEARCH_CRITERIAS (26 in the application).
NumCriteria == 2

\* Highest page number a request is allowed to ask for.
MaxPage == 2

\* Fetches one call of queryFn may start: two more than there are criterias.
MaxAttempts == NumCriteria + 2

\* total_count values the search API answers with when it may answer with a
\* different one at every fetch.
Counts == {0, 5, 1005}

\* total_count values of a criteria whose total_count does not change.
SteadyCounts == {0, 5, 15, 25, 1005}

\* ------------------------------------------------------- program constants

MAX_PAGES == 100

Undefined == "undefined"

RateLimitMessage == "Rate limit exceeded. Please add a GitHub token for extended access or try again later."

Only1000Message == "Only first 1000 search results are available"

InvalidTokenMessage == "Invalid token, please check your GitHub token and try again."

FailedMessage == "Failed to fetch repositories"

PageLimitMessage == "Only first 1000 results are available"

NoError == "null"

\* The message of the SyntaxError JSON.parse throws.
ParseErrorMessage == "Unexpected end of JSON input"

\* ------------------------------------------------------------- criterias

\* The star bands, in order; a band is named by its position.
SEARCH_CRITERIAS == [i \in 1..NumCriteria |-> [stars |-> i]]

\* useGitHub({ language = null }): the hook's language option.
language == Undefined

\* { ...criteria, language: language || undefined }
WithLanguage(criteria) == [stars |-> criteria.stars, language |-> language]

\* JSON.stringify(criteria): a property whose value is undefined is left out.
CriteriaKey(criteria) ==
    IF criteria.language = Undefined
    THEN <<criteria.stars>>
    ELSE <<criteria.stars, criteria.language>>

AllCriterias == {WithLanguage(SEARCH_CRITERIAS[i]) : i \in 1..NumCriteria}

AllKeys == {CriteriaKey(c) : c \in AllCriterias}

\* pageParam of the first page of the infinite query (initialPageParam).
NullParam == [criteria |-> [stars |-> 0, language |-> Undefined], page |-> 0]

\* ------------------------------------------------------ Set<number>, arrays

Minimum(S) == CHOOSE x \in S : \A y \in S : x <= y

Min(a, b) == IF a <= b THEN a ELSE b

\* A JavaScript Set<number>: its members. (A Set also remembers the order
\* of insertion; the hook never reads it.)
EmptySet == {}

\* set.has(x)
SetHas(set, x) == x \in set

\* set.add(x)
SetAdd(set, x) == set \cup {x}

\* set.size
SetSize(set) == Cardinality(set)

RECURSIVE ArrayFrom(_)
\* Array.from(set): an array holding each member once (written in
\* ascending order).
ArrayFrom(set) ==
    IF set = {}
    THEN << >>
    ELSE <<Minimum(set)>> \o ArrayFrom(set \ {Minimum(set)})

\* new Set(array): the elements of the array, each kept once.
NewSet(array) == {array[i] : i \in 1..Len(array)}

\* ---------------------------------------------------------------- SeenStore

EmptyStore == << >>

Put(seen, key, seenData) ==
    [k \in (DOMAIN seen) \cup {key} |-> IF k = key THEN seenData ELSE seen[k]]

\* seen[key]?.exhausted
IsExhausted(seen, key) == key \in DOMAIN seen /\ seen[key].exhausted

\* The localStorage item of SEEN_STORAGE_KEY: whether there is one, whether
\* its text is JSON, and what the JSON text holds.
NoItem == [present |-> FALSE, json |-> TRUE, value |-> EmptyStore]

\* As StringifySeen, but without the replacer: JSON.stringify writes a Set
\* as {}, which holds no page.
StringifySeenNoReplacer(seen) ==
    [k \in DOMAIN seen |->
        [seenPages |-> << >>,
         totalPages |-> seen[k].totalPages,
         exhausted |-> seen[k].exhausted]]

\* JSON.stringify(seen, replacer): every Set is written as an array.
StringifySeen(seen) ==
    [k \in DOMAIN seen |->
        [seenPages |-> ArrayFrom(seen[k].seenPages),
         totalPages |-> seen[k].totalPages,
         exhausted |-> seen[k].exhausted]]

\* JSON.parse(stored, reviver): every seenPages array becomes a Set.
ParseSeen(text) ==
    [k \in DOMAIN text |->
        [seenPages |-> NewSet(text[k].seenPages),
         totalPages |-> text[k].totalPages,
         exhausted |-> text[k].exhausted]]

\* An item that is not JSON text, such as "{" (written by something other
\* than saveSeenRepositories).
Garbage == [present |-> TRUE, json |-> FALSE, value |-> EmptyStore]

\* JSON.parse(stored, reviver) throws.
JsonParseThrows(stored) == stored.present /\ ~stored.json

\* The localStorage item after saveSeenRepositories(seen).
saveSeenRepositories(seen) ==
    [present |-> TRUE, json |-> TRUE, value |-> StringifySeen(seen)]

\* loadSeenRepositories() on the localStorage item `stored`, when JSON.parse
\* does not throw.
loadSeenRepositories(stored) ==
    IF ~stored.present THEN EmptyStore ELSE ParseSeen(stored.value)

\* ------------------------------------------------------ getNextSearchParams

\* As AvailableCriterias, but leaving out only the exhausted criterias that
\* have a totalPages: !(seenData?.totalPages && seenData?.exhausted).
AvailableCriteriasWithPages(seen) ==
    {c \in AllCriterias :
        ~(IsExhausted(seen, CriteriaKey(c))
            /\ seen[CriteriaKey(c)].totalPages # 0)}

\* !seen[JSON.stringify(criteria)]?.exhausted, over the criterias with the
\* language filter merged in.
AvailableCriterias(seen) ==
    {c \in AllCriterias : ~IsExhausted(seen, CriteriaKey(c))}

\* !seenData?.totalPages: no entry, or a totalPages of 0.
TotalPagesUnknown(seen, criteriaKey) ==
    criteriaKey \notin DOMAIN seen \/ seen[criteriaKey].totalPages = 0

\* The scan for (let page = 1; page <= effectiveTotalPages; page++): the
\* first page not in seenPages, 0 when the loop ends without returning.
FirstUnseenPage(seenData) ==
    LET effectiveTotalPages == Min(seenData.totalPages, MAX_PAGES)
        unseen == {page \in 1..effectiveTotalPages :
                      ~SetHas(seenData.seenPages, page)}
    IN  IF unseen = {} THEN 0 ELSE Minimum(unseen)

\* The return of the branch availableCriterias.length === 0: the item is
\* removed from localStorage; the object `seen` is not touched.
ResetSelection(seen, stored) ==
    [params |-> [criteria |-> WithLanguage(SEARCH_CRITERIAS[1]), page |-> 1],
     seen |-> seen,
     stored |-> NoItem,
     reset |-> TRUE,
     marked |-> 0]

RECURSIVE getNextSearchParams(_, _)
\* Every outcome of getNextSearchParams(seen) with `stored` in localStorage,
\* one per value Math.random() may take: the params returned, `seen` and the
\* localStorage item as the call leaves them, whether the call removed the
\* item (reset), and how many criterias it marked exhausted on the way.
getNextSearchParams(seen, stored) ==
    LET availableCriterias == AvailableCriterias(seen)
        Chosen(criteria) ==
            LET criteriaKey == CriteriaKey(criteria)
            IN  IF TotalPagesUnknown(seen, criteriaKey)
                THEN {[params |-> [criteria |-> criteria, page |-> 1],
                       seen |-> seen, stored |-> stored,
                       reset |-> FALSE, marked |-> 0]}
                ELSE LET seenData == seen[criteriaKey]
                         page == FirstUnseenPage(seenData)
                         marked == Put(seen, criteriaKey,
                                       [seenData EXCEPT !.exhausted = TRUE])
                     IN  IF page # 0
                         THEN {[params |-> [criteria |-> criteria, page |-> page],
                                seen |-> seen, stored |-> stored,
                                reset |-> FALSE, marked |-> 0]}
                         ELSE {[o EXCEPT !.marked = @ + 1] :
                                 o \in getNextSearchParams(
                                          marked, saveSeenRepositories(marked))}
    IN  IF availableCriterias = {}
        THEN {ResetSelection(seen, stored)}
        ELSE UNION {Chosen(criteria) : criteria \in availableCriterias}

\* ------------------------------------------------------ fetchRepositoriesPage

ErrorOf(message) == [ok |-> FALSE, message |-> message, total_count |-> 0]

ResponseOf(total_count) ==
    [ok |-> TRUE, message |-> NoError, total_count |-> total_count]

\* No fetch has settled yet in this call of queryFn.
NoOutcome == [ok |-> FALSE, message |-> NoError, total_count |-> 0]

\* What the awaited fetchRepositoriesPage(params) may settle with, `counts`
\* being the total_count values the API answers with for the criteria: the
\* throw before any request for a page beyond MAX_PAGES, else one of the
\* errors (403, 422, 401, anything else) or a response with its total_count.
fetchRepositoriesPage(params, counts) ==
    IF params.page > MAX_PAGES
    THEN {ErrorOf(PageLimitMessage)}
    ELSE {ErrorOf(m) : m \in {RateLimitMessage, Only1000Message,
                              InvalidTokenMessage, FailedMessage}}
         \cup {ResponseOf(t) : t \in counts}

\* As IsRateLimit, but testing for the name of the error class where the
\* message is.
IsRateLimitByName(message) == message = "RateLimitExceededError"

\* error.message.includes('Rate limit exceeded')
IsRateLimit(message) == message = RateLimitMessage

\* --------------------------------------------------------- tryFetchWithParams

\* As CeilTenth, but rounding down: Math.floor(total_count / 10).
FloorTenth(total_count) == total_count \div 10

\* Math.ceil(total_count / 10)
CeilTenth(total_count) ==
    IF total_count % 10 = 0 THEN total_count \div 10 ELSE total_count \div 10 + 1

\* Math.min(Math.ceil(response.total_count / 10), MAX_PAGES)
TotalPages(total_count) == Min(CeilTenth(total_count), MAX_PAGES)

ZeroEntry == [seenPages |-> EmptySet, totalPages |-> 0, exhausted |-> TRUE]

\* As RecordZero, but the entry created holds page 1.
RecordZeroWithPage(seen, criteriaKey) ==
    IF criteriaKey \in DOMAIN seen
    THEN seen
    ELSE Put(seen, criteriaKey, [ZeroEntry EXCEPT !.seenPages = {1}])

\* The branch response.total_count === 0, up to seen[criteriaKey] = seenData:
\* seen[criteriaKey] || { seenPages: new Set(), totalPages: 0, exhausted: true }
RecordZero(seen, criteriaKey) ==
    IF criteriaKey \in DOMAIN seen
    THEN seen
    ELSE Put(seen, criteriaKey, ZeroEntry)

\* seenData.exhausted = seenData.seenPages.size >= totalPages
ExhaustedNow(seenPages, totalPages) == SetSize(seenPages) >= totalPages

\* The branch with results, up to seen[criteriaKey] = seenData: the entry is
\* created with the totalPages of this response when absent, the page is
\* added and exhausted is recomputed against this response's totalPages.
RecordPage(seen, criteriaKey, page, total_count) ==
    LET totalPages == TotalPages(total_count)
        seenData == IF criteriaKey \in DOMAIN seen
                    THEN seen[criteriaKey]
                    ELSE [seenPages |-> EmptySet, totalPages |-> totalPages,
                          exhausted |-> FALSE]
        seenPages == SetAdd(seenData.seenPages, page)
    IN  Put(seen, criteriaKey,
            [seenPages |-> seenPages,
             totalPages |-> seenData.totalPages,
             exhausted |-> ExhaustedNow(seenPages, totalPages)])

\* nextPage: { criteria: params.criteria, page: params.page + 1 }
NextPageOf(p) == [criteria |-> p.criteria, page |-> p.page + 1]

\* --------------------------------------------------------------------- state

\* The instances of the hook that may exist (one per open tab of the
\* application), each with its own query; all share the localStorage item.
Reqs == {1, 2}

\* One consumer drives the feed.
Consumers == {1}

VARIABLES
    apiCounts,     \* per star band: the total_count values the API answers with
    localStorage,  \* the item github_seen_repositories: [present, value]
    nextPage,      \* per query: getNextPageParam of its last page, or NullParam
    pc,            \* per queryFn call: "idle", "fetching", "settled", "done",
                   \* "failed"
    seen,          \* per queryFn call: the object `seen` (seenRef.current)
    params,        \* per queryFn call: the params of the fetch in flight
    error,         \* per queryFn call: the message of the error it threw
    attempts,      \* per queryFn call: fetches started by tryFetchWithParams
    selected,      \* per queryFn call: how the params in flight were chosen
    settled,       \* per queryFn call: what the awaited fetch settled with
    cancelled      \* per queryFn call: the caller has abandoned it

vars == <<apiCounts, localStorage, nextPage, pc, seen, params, error, attempts,
          selected, settled, cancelled>>

InitHook ==
    /\ localStorage = NoItem
    /\ nextPage = [r \in Reqs |-> NullParam]
    /\ pc = [r \in Reqs |-> "idle"]
    /\ seen = [r \in Reqs |-> EmptyStore]
    /\ params = [r \in Reqs |-> NullParam]
    /\ error = [r \in Reqs |-> NoError]
    /\ attempts = [r \in Reqs |-> 0]
    /\ selected = [r \in Reqs |-> "none"]
    /\ settled = [r \in Reqs |-> NoOutcome]
    /\ cancelled = [r \in Reqs |-> FALSE]

\* The API may answer any total_count, a different one at every fetch.
Init ==
    /\ apiCounts = [i \in 1..NumCriteria |-> Counts]
    /\ InitHook

\* The API answers with the same total_count at every fetch of a criteria.
InitSteady ==
    /\ apiCounts \in [1..NumCriteria -> {{t} : t \in SteadyCounts}]
    /\ InitHook

\* How a call of getNextSearchParams ended: it picked an available criteria,
\* found every criteria exhausted at once ("reset"), or marked the last
\* available ones exhausted itself and then reset ("staleReset").
KindOf(o) ==
    IF ~o.reset THEN "picked" ELSE IF o.marked = 0 THEN "reset" ELSE "staleReset"

Outcomes(r) == fetchRepositoriesPage(params[r], apiCounts[params[r].criteria.stars])

\* ------------------------------------------------------------------- queryFn

\* queryFn with context.pageParam = null (the first page, or the first page
\* of a refetch): load, getNextSearchParams, and the fetch is started.
FetchFirst(r) ==
    /\ pc[r] \in {"idle", "done", "failed"}
    /\ ~JsonParseThrows(localStorage)
    /\ \E o \in getNextSearchParams(loadSeenRepositories(localStorage),
                                    localStorage) :
        /\ o.params.page <= MaxPage
        /\ seen' = [seen EXCEPT ![r] = o.seen]
        /\ localStorage' = o.stored
        /\ params' = [params EXCEPT ![r] = o.params]
        /\ selected' = [selected EXCEPT ![r] = KindOf(o)]
    /\ pc' = [pc EXCEPT ![r] = "fetching"]
    /\ error' = [error EXCEPT ![r] = NoError]
    /\ attempts' = [attempts EXCEPT ![r] = 1]
    /\ settled' = [settled EXCEPT ![r] = NoOutcome]
    /\ cancelled' = [cancelled EXCEPT ![r] = FALSE]
    /\ UNCHANGED <<apiCounts, nextPage>>

\* queryFn with context.pageParam = the nextPage of the last page (load
\* more): load, and the fetch of that page is started.
FetchMore(r) ==
    /\ pc[r] \in {"idle", "done", "failed"}
    /\ ~JsonParseThrows(localStorage)
    /\ nextPage[r] # NullParam
    /\ nextPage[r].page <= MaxPage
    /\ seen' = [seen EXCEPT ![r] = loadSeenRepositories(localStorage)]
    /\ params' = [params EXCEPT ![r] = nextPage[r]]
    /\ selected' = [selected EXCEPT ![r] = "pageParam"]
    /\ pc' = [pc EXCEPT ![r] = "fetching"]
    /\ error' = [error EXCEPT ![r] = NoError]
    /\ attempts' = [attempts EXCEPT ![r] = 1]
    /\ settled' = [settled EXCEPT ![r] = NoOutcome]
    /\ cancelled' = [cancelled EXCEPT ![r] = FALSE]
    /\ UNCHANGED <<apiCounts, localStorage, nextPage>>

\* queryFn when JSON.parse throws in loadSeenRepositories: nothing catches
\* the error, queryFn fails with it before seenRef.current is assigned.
LoadThrows(r) ==
    /\ pc[r] \in {"idle", "done", "failed"}
    /\ JsonParseThrows(localStorage)
    /\ error' = [error EXCEPT ![r] = ParseErrorMessage]
    /\ pc' = [pc EXCEPT ![r] = "failed"]
    /\ params' = [params EXCEPT ![r] = NullParam]
    /\ attempts' = [attempts EXCEPT ![r] = 0]
    /\ selected' = [selected EXCEPT ![r] = "none"]
    /\ settled' = [settled EXCEPT ![r] = NoOutcome]
    /\ cancelled' = [cancelled EXCEPT ![r] = FALSE]
    /\ UNCHANGED <<apiCounts, localStorage, nextPage, seen>>

\* const nextParams = getNextSearchParams(seen);
\* return tryFetchWithParams(nextParams);
\* with `from` the object seen and `stored` the localStorage item by then.
Fallback(r, from, stored) ==
    /\ attempts[r] < MaxAttempts
    /\ \E o \in getNextSearchParams(from, stored) :
        /\ o.params.page <= MaxPage
        /\ seen' = [seen EXCEPT ![r] = o.seen]
        /\ localStorage' = o.stored
        /\ params' = [params EXCEPT ![r] = o.params]
        /\ selected' = [selected EXCEPT ![r] = KindOf(o)]
    /\ attempts' = [attempts EXCEPT ![r] = @ + 1]
    /\ pc' = [pc EXCEPT ![r] = "fetching"]
    /\ settled' = [settled EXCEPT ![r] = NoOutcome]
    /\ UNCHANGED <<error, nextPage, cancelled>>

\* tryFetchWithParams has returned or thrown: its frame is gone.
Returned(r) ==
    /\ params' = [params EXCEPT ![r] = NullParam]
    /\ attempts' = [attempts EXCEPT ![r] = 0]
    /\ selected' = [selected EXCEPT ![r] = "none"]
    /\ settled' = [settled EXCEPT ![r] = NoOutcome]

\* The awaited fetchRepositoriesPage(params) settles: it throws or it
\* answers.
Settle(r) ==
    /\ pc[r] = "fetching"
    /\ \E out \in Outcomes(r) : settled' = [settled EXCEPT ![r] = out]
    /\ pc' = [pc EXCEPT ![r] = "settled"]
    /\ UNCHANGED <<apiCounts, localStorage, nextPage, seen, params, error,
                   attempts, selected, cancelled>>

\* if (error instanceof Error && error.message.includes('Rate limit exceeded'))
\*   throw error;
Rethrown(out) == IsRateLimit(out.message)

\* The fetch threw and the catch rethrows the error: queryFn fails.
Rethrow(r) ==
    /\ pc[r] = "settled"
    /\ ~settled[r].ok
    /\ Rethrown(settled[r])
    /\ error' = [error EXCEPT ![r] = settled[r].message]
    /\ pc' = [pc EXCEPT ![r] = "failed"]
    /\ Returned(r)
    /\ UNCHANGED <<apiCounts, localStorage, nextPage, seen, cancelled>>

\* The fetch threw and the catch tries another criteria.
CatchOther(r) ==
    /\ pc[r] = "settled"
    /\ ~settled[r].ok
    /\ ~Rethrown(settled[r])
    /\ Fallback(r, seen[r], localStorage)
    /\ UNCHANGED apiCounts

\* The response has total_count 0: the criteria is recorded, saved, and
\* another criteria is tried.
NoResults(r) ==
    /\ pc[r] = "settled"
    /\ settled[r].ok
    /\ settled[r].total_count = 0
    /\ LET recorded == RecordZero(seen[r], CriteriaKey(params[r].criteria))
       IN  Fallback(r, recorded, saveSeenRepositories(recorded))
    /\ UNCHANGED apiCounts

\* As Results, but without the call of saveSeenRepositories.
ResultsUnsaved(r) ==
    /\ pc[r] = "settled"
    /\ settled[r].ok
    /\ settled[r].total_count # 0
    /\ seen' = [seen EXCEPT ![r] =
            RecordPage(seen[r], CriteriaKey(params[r].criteria),
                       params[r].page, settled[r].total_count)]
    /\ nextPage' = [nextPage EXCEPT ![r] = NextPageOf(params[r])]
    /\ pc' = [pc EXCEPT ![r] = "done"]
    /\ Returned(r)
    /\ UNCHANGED <<apiCounts, error, localStorage, cancelled>>

\* The response has results: the page is recorded, saved and returned
\* with its nextPage.
Results(r) ==
    /\ pc[r] = "settled"
    /\ settled[r].ok
    /\ settled[r].total_count # 0
    /\ LET recorded == RecordPage(seen[r], CriteriaKey(params[r].criteria),
                                  params[r].page, settled[r].total_count)
       IN  /\ seen' = [seen EXCEPT ![r] = recorded]
           /\ localStorage' = saveSeenRepositories(recorded)
    /\ nextPage' = [nextPage EXCEPT ![r] = NextPageOf(params[r])]
    /\ pc' = [pc EXCEPT ![r] = "done"]
    /\ Returned(r)
    /\ UNCHANGED <<apiCounts, error, cancelled>>

\* The page is closed or reloaded: what lives in memory is gone, the
\* localStorage item stays.
Crash ==
    /\ \E r \in Reqs : pc[r] # "idle"
    /\ nextPage' = [r \in Reqs |-> NullParam]
    /\ pc' = [r \in Reqs |-> "idle"]
    /\ seen' = [r \in Reqs |-> EmptyStore]
    /\ params' = [r \in Reqs |-> NullParam]
    /\ error' = [r \in Reqs |-> NoError]
    /\ attempts' = [r \in Reqs |-> 0]
    /\ selected' = [r \in Reqs |-> "none"]
    /\ settled' = [r \in Reqs |-> NoOutcome]
    /\ cancelled' = [r \in Reqs |-> FALSE]
    /\ UNCHANGED <<apiCounts, localStorage>>

Next ==
    \/ \E r \in Consumers : FetchFirst(r)
    \/ \E r \in Consumers : FetchMore(r)
    \/ \E r \in Consumers : Settle(r)
    \/ \E r \in Consumers : Rethrow(r)
    \/ \E r \in Consumers : CatchOther(r)
    \/ \E r \in Consumers : NoResults(r)
    \/ \E r \in Consumers : Results(r)
    \/ Crash

Spec == Init /\ [][Next]_vars

\* Something else of the same origin (another script, the user) writes an
\* item that is not JSON text under SEEN_STORAGE_KEY.
Corrupt ==
    /\ ~JsonParseThrows(localStorage)
    /\ localStorage' = Garbage
    /\ UNCHANGED <<apiCounts, nextPage, pc, seen, params, error, attempts,
                   selected, settled, cancelled>>

NextCorrupt ==
    \/ Next
    \/ \E r \in Consumers : LoadThrows(r)
    \/ Corrupt

\* The hook with a localStorage item that may stop being JSON text.
SpecCorrupt == Init /\ [][NextCorrupt]_vars

\* The caller abandons call r while its fetch is in flight (the component
\* unmounts, the query is cancelled): the signal of the context is aborted.
\* queryFn never reads context.signal and hands none to fetch, so the call
\* goes on as before.
Cancel(r) ==
    /\ pc[r] = "fetching"
    /\ ~cancelled[r]
    /\ cancelled' = [cancelled EXCEPT ![r] = TRUE]
    /\ UNCHANGED <<apiCounts, localStorage, nextPage, pc, seen, params, error,
                   attempts, selected, settled>>

NextCancel ==
    \/ Next
    \/ \E r \in Consumers : Cancel(r)

\* The hook with a caller that may abandon its requests.
SpecCancel == Init /\ [][NextCancel]_vars

\* total_count values the API answers with when two tabs are open.
TabCounts == {0, 1005}

InitTabs ==
    /\ apiCounts = [i \in 1..NumCriteria |-> TabCounts]
    /\ InitHook

\* The first page of the feed is loaded by a tab that has not loaded it yet.
FirstLoad(r) == pc[r] = "idle" /\ FetchFirst(r)

\* Two tabs of the application are open: each runs the hook and loads its
\* first page, and the call of queryFn of one may be between its load and
\* its save while the call of the other is.
NextTabs ==
    \/ \E r \in Reqs : FirstLoad(r)
    \/ \E r \in Reqs : Settle(r)
    \/ \E r \in Reqs : Rethrow(r)
    \/ \E r \in Reqs : CatchOther(r)
    \/ \E r \in Reqs : NoResults(r)
    \/ \E r \in Reqs : Results(r)
    \/ Crash

SpecTabs == InitTabs /\ [][NextTabs]_vars

SpecSteady == InitSteady /\ [][Next]_vars

\* -------------------------------------------------------------------- claims

InFlight(r) == pc[r] \in {"fetching", "settled"}

KeyInFlight(r) == CriteriaKey(params[r].criteria)

FirstParams == [criteria |-> WithLanguage(SEARCH_CRITERIAS[1]), page |-> 1]

\* C1: getNextSearchParams never returns a (criteria, page) whose page is
\* already in that criteria's seenPages, unless the call did the global reset.
C1_NeverSelectsSeenPage ==
    \A r \in Reqs :
        (InFlight(r) /\ selected[r] = "picked"
            /\ KeyInFlight(r) \in DOMAIN seen[r])
        => ~SetHas(seen[r][KeyInFlight(r)].seenPages, params[r].page)

\* C2: when every criteria is exhausted, the call of getNextSearchParams
\* leaves no progress entry, neither in localStorage nor in the object `seen`
\* the rest of the call works on, and returns page 1 of the first criteria.
C2_ResetClearsStore ==
    \A r \in Reqs :
        (InFlight(r) /\ selected[r] = "reset")
        => /\ ~localStorage.present
           /\ seen[r] = EmptyStore
           /\ params[r] = FirstParams

ZeroArrayEntry == [seenPages |-> << >>, totalPages |-> 0, exhausted |-> TRUE]

\* The step in which call r handles what its fetch settled with (and not the
\* step of a restart).
Handles(r) == pc[r] = "settled" /\ pc'[r] \notin {"settled", "idle"}

\* C3: after a fetch with total_count 0 the criteria's progress is exhausted
\* with no seen pages and totalPages 0, whatever entry it had before, in the
\* object `seen` and in what was saved (unless the fallback selection has
\* removed the item since).
C3_ZeroMarksExhausted ==
    [][\A r \in Reqs :
        (Handles(r) /\ settled[r].ok /\ settled[r].total_count = 0)
        => /\ KeyInFlight(r) \in DOMAIN seen'[r]
           /\ seen'[r][KeyInFlight(r)] = ZeroEntry
           /\ localStorage'.present =>
                /\ KeyInFlight(r) \in DOMAIN localStorage'.value
                /\ localStorage'.value[KeyInFlight(r)] = ZeroArrayEntry]_vars

\* C4: a fetch that fails with the rate-limit error makes queryFn fail with
\* that error; `seen` and localStorage stay as they were and no other fetch
\* is started.
C4_RateLimitPropagates ==
    [][\A r \in Reqs :
        (Handles(r) /\ ~settled[r].ok /\ settled[r].message = RateLimitMessage)
        => /\ pc'[r] = "failed"
           /\ error'[r] = RateLimitMessage
           /\ seen'[r] = seen[r]
           /\ localStorage' = localStorage]_vars

C4_Witness ==
    \E r \in Reqs :
        /\ pc[r] = "failed"
        /\ error[r] = RateLimitMessage
        /\ seen[r] # EmptyStore
        /\ localStorage.present

\* C5: a fetch that fails with the invalid-token error makes queryFn fail
\* with that error, and no fetch of another criteria is started.
C5_InvalidTokenTerminal ==
    [][\A r \in Reqs :
        (Handles(r) /\ ~settled[r].ok
            /\ settled[r].message = InvalidTokenMessage)
        => /\ pc'[r] = "failed"
           /\ error'[r] = InvalidTokenMessage]_vars

\* C6: one call of queryFn starts no more fetches than there are criterias.
C6_AttemptsBounded == \A r \in Reqs : attempts[r] <= NumCriteria

KeyOfBand(i) == CriteriaKey(WithLanguage(SEARCH_CRITERIAS[i]))

\* The stores there are: each call's object `seen` and what load() returns.
Stores == {seen[r] : r \in Reqs} \cup {loadSeenRepositories(localStorage)}

\* min(ceil(t / 10), 100)
ExpectedTotalPages(t) ==
    IF (t + 9) \div 10 > 100 THEN 100 ELSE (t + 9) \div 10

\* C7: with a total_count T > 0 that does not change, the totalPages of the
\* criteria is min(ceil(T / 10), 100) (3 for T = 25), and the criteria is
\* exhausted exactly when that many distinct pages are recorded.
C7_SteadyExhaustion ==
    \A i \in 1..NumCriteria : \A t \in apiCounts[i] : \A s \in Stores :
        (apiCounts[i] = {t} /\ t > 0 /\ KeyOfBand(i) \in DOMAIN s)
        => /\ s[KeyOfBand(i)].totalPages = ExpectedTotalPages(t)
           /\ t = 25 => s[KeyOfBand(i)].totalPages = 3
           /\ s[KeyOfBand(i)].exhausted
                <=> Cardinality(s[KeyOfBand(i)].seenPages)
                        >= ExpectedTotalPages(t)

C7_Witness ==
    \E i \in 1..NumCriteria :
        /\ apiCounts[i] = {15}
        /\ localStorage.present
        /\ KeyOfBand(i) \in DOMAIN localStorage.value
        /\ localStorage.value[KeyOfBand(i)] =
              [seenPages |-> <<1, 2>>, totalPages |-> 2, exhausted |-> TRUE]

\* C8: as long as a criteria is left that is not exhausted, the criteria
\* getNextSearchParams returns is not exhausted; so after the only page of a
\* criteria with totalPages 1 is recorded, another criteria is returned.
C8_NeverSelectsExhausted ==
    \A r \in Reqs :
        (/\ InFlight(r)
         /\ selected[r] \in {"picked", "reset", "staleReset"}
         /\ \E c \in AllCriterias : ~IsExhausted(seen[r], CriteriaKey(c)))
        => ~IsExhausted(seen[r], KeyInFlight(r))

C8_Witness ==
    \E r \in Reqs : \E k \in DOMAIN seen[r] :
        /\ InFlight(r)
        /\ selected[r] = "picked"
        /\ seen[r][k] = [seenPages |-> {1}, totalPages |-> 1, exhausted |-> TRUE]
        /\ KeyInFlight(r) # k

\* The pages of criteria k in what load() returns for the item `stored`.
PersistedPages(stored, k) ==
    IF k \in DOMAIN loadSeenRepositories(stored)
    THEN loadSeenRepositories(stored)[k].seenPages
    ELSE {}

\* Call r returns the page it fetched.
Returns(r) == pc[r] = "settled" /\ pc'[r] = "done"

\* A call of getNextSearchParams in this step did the global reset.
ResetStep ==
    \E r \in Reqs :
        /\ pc[r] # "fetching"
        /\ pc'[r] = "fetching"
        /\ selected'[r] \in {"reset", "staleReset"}

\* C9 as stated: the page a call returns is in what load() gives from then
\* on, whatever happens later (a restart included).
C9_PersistedForever ==
    [][/\ \A r \in Reqs :
            Returns(r)
            => params[r].page \in PersistedPages(localStorage', KeyInFlight(r))
       /\ \A k \in AllKeys :
            PersistedPages(localStorage, k)
                \subseteq PersistedPages(localStorage', k)]_vars

\* C9, amended: the page a call returns is in what load() gives from then
\* on, a restart included, until getNextSearchParams does the global reset.
C9_PersistedUntilReset ==
    [][/\ \A r \in Reqs :
            Returns(r)
            => params[r].page \in PersistedPages(localStorage', KeyInFlight(r))
       /\ ~ResetStep =>
            \A k \in AllKeys :
                PersistedPages(localStorage, k)
                    \subseteq PersistedPages(localStorage', k)]_vars

\* After a restart, before any call: the pages recorded are still loaded.
C9_Witness ==
    /\ \A r \in Reqs : pc[r] = "idle"
    /\ \E k \in AllKeys : PersistedPages(localStorage, k) # {}

RoundTrip(s) ==
    LET back == loadSeenRepositories(saveSeenRepositories(s))
    IN  /\ DOMAIN back = DOMAIN s
        /\ \A k \in DOMAIN s :
            /\ back[k].seenPages = s[k].seenPages
            /\ back[k].totalPages = s[k].totalPages
            /\ back[k].exhausted = s[k].exhausted

\* C10: save then load gives back every store: the same criterias, each
\* with seenPages a set of the same members, totalPages and exhausted
\* unchanged; and every set of pages (such as {1,3,5}) comes back the same
\* from Array.from then new Set.
C10_SaveLoadRoundTrip ==
    /\ \A s \in Stores : RoundTrip(s)
    /\ \A pages \in SUBSET (1..MaxPage + 3) :
        /\ NewSet(ArrayFrom(pages)) = pages
        /\ Len(ArrayFrom(pages)) = Cardinality(pages)

C10_Witness ==
    \E r \in Reqs : \E k \in DOMAIN seen[r] :
        /\ pc[r] = "done"
        /\ localStorage = saveSeenRepositories(seen[r])
        /\ loadSeenRepositories(localStorage) = seen[r]
        /\ Cardinality(seen[r][k].seenPages) >= 2

\* Call r of queryFn is started in this step.
Called(r) ==
    /\ ~InFlight(r)
    /\ pc'[r] # "idle"
    /\ <<pc'[r], error'[r]>> # <<pc[r], error[r]>>

\* C11: a call of queryFn that finds no item, or an item JSON.parse cannot
\* read, works on an empty store and does not fail because of loading: its
\* fetch is started.
C11_LoadNeverFails ==
    [][\A r \in Reqs :
        (Called(r) /\ (~localStorage.present \/ JsonParseThrows(localStorage)))
        => /\ pc'[r] = "fetching"
           /\ error'[r] = NoError
           /\ seen'[r] = EmptyStore]_vars

\* C12: when the fetch started by the global reset (page 1 of the first
\* criteria) returns results, what is persisted holds the progress recorded
\* since the reset and nothing else: the first criteria with seenPages {1},
\* and no entry of the time before the reset.
C12_ResetStartsFreshEpoch ==
    [][\A r \in Reqs :
        (Returns(r) /\ selected[r] \in {"reset", "staleReset"})
        => /\ localStorage'.present
           /\ DOMAIN loadSeenRepositories(localStorage') = {KeyOfBand(1)}
           /\ PersistedPages(localStorage', KeyOfBand(1)) = {1}]_vars

\* C13: a load-more request fetches the nextPage of the last page (same
\* criteria, page + 1) only while that criteria is not exhausted in the
\* store it loads; when the page just recorded made the criteria exhausted,
\* the request does not fetch page + 1 of it.
C13_ContinuationStopsAtExhaustion ==
    \A r \in Reqs :
        (InFlight(r) /\ selected[r] = "pageParam")
        => ~IsExhausted(seen[r], KeyInFlight(r))

\* C14: with two calls of queryFn in flight at the same time, no recorded
\* page is lost: the save of the call that returns a page keeps every page
\* that was persisted, those saved by the other call included.
C14_NoLostUpdate ==
    [][\A r \in Reqs :
        Returns(r)
        => \A k \in AllKeys :
              PersistedPages(localStorage, k)
                  \subseteq PersistedPages(localStorage', k)]_vars

\* C15: in every store, an entry whose totalPages is known (not 0) is
\* exhausted exactly when it has at least as many seen pages as the
\* totalPages it stores, also when the API answers a different total_count
\* at successive fetches of the criteria.
C15_ExhaustedIffAllPagesSeen ==
    \A s \in Stores : \A k \in DOMAIN s :
        s[k].totalPages # 0
        => (s[k].exhausted <=> SetSize(s[k].seenPages) >= s[k].totalPages)

\* The pages of criteria k in store s.
PagesOf(s, k) == IF k \in DOMAIN s THEN s[k].seenPages ELSE {}

\* The pages of criteria k in any store there is.
KnownPages(k) ==
    PersistedPages(localStorage, k) \cup UNION {PagesOf(seen[r], k) : r \in Reqs}

\* KnownPages(k) in the next state.
KnownPagesNext(k) ==
    PersistedPages(localStorage', k)
        \cup UNION {PagesOf(seen'[r], k) : r \in Reqs}

\* The pages of criteria k this step returns: those of a fetch of (k, p) that
\* answered with total_count > 0.
PagesReturned(k) ==
    {params[r].page : r \in {q \in Reqs : /\ Returns(q)
                                         /\ KeyInFlight(q) = k
                                         /\ settled[q].ok
                                         /\ settled[q].total_count > 0}}

\* C16: until getNextSearchParams does the global reset, the persisted
\* seenPages of a criteria only grow, and so do those of the object `seen`
\* during a call; and a page enters the seenPages of criteria c only in the
\* step that returns the fetch of exactly (c, p), which answered with
\* total_count > 0: a failed fetch or one with no result adds no page.
C16_PagesOnlyFromReturnedFetches ==
    [][\A k \in AllKeys :
        /\ ~ResetStep
            => PersistedPages(localStorage, k)
                   \subseteq PersistedPages(localStorage', k)
        /\ \A r \in Reqs :
            (InFlight(r) /\ pc'[r] # "idle")
            => PagesOf(seen[r], k) \subseteq PagesOf(seen'[r], k)
        /\ KnownPagesNext(k) \ KnownPages(k) \subseteq PagesReturned(k)]_vars

\* A call has returned page 2 of a criteria after page 1, and another
\* criteria answered with no result: its entry holds no page.
C16_Witness ==
    \E r \in Reqs : \E k, z \in DOMAIN seen[r] :
        /\ pc[r] = "done"
        /\ seen[r][k].seenPages = {1, 2}
        /\ seen[r][z] = ZeroEntry
        /\ PersistedPages(localStorage, k) = {1, 2}
        /\ PersistedPages(localStorage, z) = {}

\* Another criteria than the one of call r is not exhausted in its `seen`.
OtherAvailable(r) ==
    \E c \in AvailableCriterias(seen[r]) : c # params[r].criteria

\* C17: when a fetch of (c, p) fails with another error than the rate
\* limit, handling it leaves c's exhausted flag and seenPages as they were,
\* and the fallback fetch is of another criteria than c whenever another
\* criteria is not exhausted.
C17_FailureAbsorbed ==
    [][\A r \in Reqs :
        (Handles(r) /\ ~settled[r].ok /\ ~IsRateLimit(settled[r].message))
        => /\ IsExhausted(seen'[r], KeyInFlight(r))
                = IsExhausted(seen[r], KeyInFlight(r))
           /\ PagesOf(seen'[r], KeyInFlight(r)) = PagesOf(seen[r], KeyInFlight(r))
           /\ (OtherAvailable(r) /\ pc'[r] = "fetching")
                => params'[r].criteria # params[r].criteria]_vars

\* The pages 1 .. k, for some k.
IsPrefix(pages) == pages = 1..Cardinality(pages)

\* C19: with one call of queryFn at a time, the seenPages of every criteria
\* in every store are the pages 1 .. k for some k: no page is recorded while
\* a lower page of the criteria is not.
C19_SeenPagesArePrefix ==
    \A s \in Stores : \A k \in DOMAIN s : IsPrefix(s[k].seenPages)

\* Page 2 of a criteria was recorded after its page 1.
C19_Witness ==
    \E k \in AllKeys :
        /\ PersistedPages(localStorage, k) = {1, 2}
        /\ \E r \in Reqs : pc[r] = "done" /\ PagesOf(seen[r], k) = {1, 2}

\* C18: when the caller has cancelled a request while its fetch was in
\* flight, the completion of the abandoned fetch changes neither the object
\* `seen` nor what is persisted.
C18_CancelledLeavesStore ==
    [][\A r \in Reqs :
        (cancelled[r] /\ Handles(r))
        => /\ seen'[r] = seen[r]
           /\ localStorage' = localStorage]_vars

====
